---- MODULE Spec2Model ----
(***************************************************************************)
(* A model of fold.cpp: the vocabulary pass (loadDictionary), the forest   *)
(* build (load), and the search phase of main (getNextFrame,               *)
(* iterateCoordinates, maximum, getNext, doesNotContain, outPutAll).       *)
(*                                                                         *)
(* Tokens are numbers: 0 stands for the empty string "", 1..NumWords for   *)
(* the words of the corpus; the numeric order is the string order that     *)
(* std::map <string,unsigned int> iterates in ("" sorts first).            *)
(* Word ids are 0-based as in the source; TLA+ sequences are 1-based, so   *)
(* trees[id + 1] models trees[id] and frame[s + 1] models frame[s].        *)
(***************************************************************************)
EXTENDS Integers, Sequences, FiniteSets, TLC

\* ------------------------------------------------------------- bounds
\* Number of distinct words a corpus may draw from.
NumWords == 3
\* Longest corpus (in tokens).
MaxLen == 5

\* Width w of unsigned int in the model.  The program's is 32 bits; the model
\* checker's integers end at 2^31 - 1, so the model narrows the type: the
\* product of line 208 wraps once L * (L + 1) reaches 2^w, in the program from
\* L = 65536 on.
UintBits == 5

\* ---------------------------------------------------- program constants
\* The value every frame slot is constructed with (main, line 309).
SENTINEL == 1234578
\* Number of frame slots (main, line 309).
FRAME_SIZE == 9
\* The slot getNext is told to fill (main, line 358).
FRAME_POS_E == 4
\* The value of the unsigned expression `size() - 1` when size() is 0.  It is
\* 2^64 - 1 (size_t); it is only ever compared for equality with a coordinate,
\* and no coordinate of the model comes near it.
SIZE_MAX == 2147483647

UintModulus == 2 ^ UintBits

VARIABLES
  stream,            \* the corpus file huge.txt: the sequence of its tokens
  trailing,          \* whether whitespace follows the last token of the file
  pc,                \* position of the program
  vocabPos,          \* loadDictionary: tokens consumed from stream `vocab`
  vocabEof,          \* loadDictionary: vocab.eof()
  dictWord,          \* loadDictionary: the local `word`
  dictionary,        \* load: map <string,unsigned int> dictionary
  inPos,             \* load: tokens consumed from stream `in`
  inEof,             \* load: in.eof()
  twoBack,           \* load: local twoBack
  oneBack,           \* load: local oneBack
  word,              \* load: local word
  trees,             \* main: tops trees
  reverseDictionary, \* main: map <unsigned int,string> reverseDictionary
  current,           \* main: loop variable current
  mainCoordinates,   \* main: mainCoordinates
  sweepCoordinates,  \* main: sweepCoordinates
  root,              \* main: top root (a copy of trees[current])
  max,               \* main: max
  ranBefore,         \* main: ranBefore
  pos,               \* main: loop variable pos
  frame,             \* main: frame
  children,          \* main: children
  iterE,             \* main: iterE
  gotNextE,          \* main: gotNextE
  rootB,             \* main: rootB
  rootD,             \* main: rootD
  visited,           \* history: the (main, sweep) pairs getNextFrame used for this root
  matches,           \* history: the slot-4 values emitted for this coordinate pair
  emitting,          \* history: TRUE in the state right after outPutAll was called
  printed            \* history: the lines written by the last outPutAll call

vars == << stream, trailing, pc, vocabPos, vocabEof, dictWord, dictionary,
           inPos, inEof, twoBack, oneBack, word, trees, reverseDictionary,
           current, mainCoordinates, sweepCoordinates, root, max, ranBefore,
           pos, frame, children, iterE, gotNextE, rootB, rootD,
           visited, matches, emitting, printed >>

inputVars == << stream, trailing >>
vocabVars == << vocabPos, vocabEof, dictWord >>
loadVars  == << inPos, inEof, twoBack, oneBack, word >>
rootVars  == << current, root, max >>
coordVars == << mainCoordinates, sweepCoordinates, ranBefore, pos >>
matchVars == << children, iterE, gotNextE, rootB, rootD >>

\* ------------------------------------------------------------ the input
Words == 1..NumWords
EmptyString == 0

RECURSIVE SeqsUpTo(_, _)
SeqsUpTo(S, n) ==
  IF n = 0 THEN { << >> }
  ELSE LET shorter == SeqsUpTo(S, n - 1)
       IN  shorter \cup { Append(s, x) : s \in { t \in shorter : Len(t) = n - 1 }, x \in S }

Corpora == SeqsUpTo(Words, MaxLen)

\* The set of distinct tokens of a corpus.
Distinct(s) == { s[i] : i \in 1..Len(s) }

\* --------------------------------------------------- operator>> on a stream
\* `in >> x` with p tokens already consumed.  When a token is left, x becomes
\* that token; eofbit is set when the extraction ran into the end of the file,
\* which it does on the last token unless whitespace follows it.  When no token
\* is left the extraction fails: x keeps its value and eofbit is set.
ReadOk(p) == p < Len(stream)
ReadVal(p, old) == IF ReadOk(p) THEN stream[p + 1] ELSE old
ReadPos(p) == IF ReadOk(p) THEN p + 1 ELSE p
ReadEof(p) == IF ReadOk(p) THEN (p + 1 = Len(stream) /\ ~trailing) ELSE TRUE

\* ------------------------------------------------------ std::map operator[]
\* dictionary[w]: the value stored under w, value-initialised to 0 and inserted
\* when w is no key yet.
Subscript(d, w) == IF w \in DOMAIN d THEN d[w] ELSE 0
Touch(d, w) == IF w \in DOMAIN d THEN d ELSE d @@ (w :> 0)

\* ----------------------------------------------------------- doesNotContain
RECURSIVE doesNotContainScan(_, _, _)
doesNotContainScan(r, x, i) ==
  IF i < Len(r) - 1 /\ r[i + 1].first # x
    THEN doesNotContainScan(r, x, i + 1)
    ELSE i

\* doesNotContain without the check of the last item (line 144).
doesNotContainLastUnchecked(r, x) ==
  IF Len(r) = 0 THEN TRUE
  ELSE doesNotContainScan(r, x, 0) = Len(r) - 1

doesNotContain(r, x) ==
  IF Len(r) = 0 THEN TRUE
  ELSE r[doesNotContainScan(r, x, 0) + 1].first # x

\* ------------------------------------------------------------ loadDictionary
\* One iteration of `while (!vocab.eof())`.
loadDictionary ==
  /\ pc = "loadDictionary"
  /\ ~vocabEof
  /\ LET w == ReadVal(vocabPos, dictWord)
     IN  /\ dictWord' = w
         /\ dictionary' = IF w \notin DOMAIN dictionary
                            THEN dictionary @@ (w :> Cardinality(DOMAIN dictionary))
                            ELSE dictionary
  /\ vocabPos' = ReadPos(vocabPos)
  /\ vocabEof' = ReadEof(vocabPos)
  /\ UNCHANGED << inputVars, pc, loadVars, trees, reverseDictionary, rootVars,
                  coordVars, frame, matchVars, visited, matches, emitting, printed >>

\* -------------------------------------------------------------------- load
EmptyTop == << >>
Branch(id) == [first |-> id, second |-> << >>]

\* load, lines 242-262: the vocabulary pass is over; size the forest, read the
\* first two tokens and push the first branch.
loadFirstBranch ==
  /\ pc = "loadDictionary"
  /\ vocabEof
  /\ LET sized == [i \in 1..Cardinality(DOMAIN dictionary) |-> EmptyTop]
         tb == ReadVal(inPos, twoBack)
         p1 == ReadPos(inPos)
         ob == ReadVal(p1, oneBack)
         d1 == Touch(dictionary, ob)
         d2 == Touch(d1, tb)
         r  == Subscript(d2, tb)
     IN  /\ twoBack' = tb
         /\ oneBack' = ob
         /\ inPos' = ReadPos(p1)
         /\ inEof' = (ReadEof(inPos) \/ ReadEof(p1))
         /\ dictionary' = d2
         /\ trees' = [sized EXCEPT ![r + 1] = Append(@, Branch(Subscript(d1, ob)))]
  /\ pc' = "load"
  /\ UNCHANGED << inputVars, vocabVars, word, reverseDictionary, rootVars,
                  coordVars, frame, matchVars, visited, matches, emitting, printed >>

\* The index the loop of line 281 stops at: the first branch of r whose id is b.
RECURSIVE branchIndex(_, _, _)
branchIndex(r, b, i) ==
  IF r[i + 1].first # b THEN branchIndex(r, b, i + 1) ELSE i

\* The index the loop of line 288 stops at: the first position of leaf x in
\* leaves, or Len(leaves) when it is not there.
RECURSIVE leafIndex(_, _, _)
leafIndex(leaves, x, k) ==
  IF k < Len(leaves) /\ leaves[k + 1] # x THEN leafIndex(leaves, x, k + 1) ELSE k

\* One iteration of `while (!in.eof())`, lines 266-298.
loadStep(t, d, tb, ob, w) ==
  LET r == Subscript(d, tb)
      x == Subscript(d, w)
      b == Subscript(d, ob)
      withBranch == IF doesNotContain(t[r + 1], x)
                      THEN Append(t[r + 1], Branch(x))
                      ELSE t[r + 1]
      i == branchIndex(withBranch, b, 0)
      leaves == withBranch[i + 1].second
      k == leafIndex(leaves, x, 0)
      withLeaf == IF k = Len(leaves)
                    THEN [withBranch EXCEPT ![i + 1].second = Append(@, x)]
                    ELSE withBranch
  IN  [t EXCEPT ![r + 1] = withLeaf]

load ==
  /\ pc = "load"
  /\ ~inEof
  /\ LET w == ReadVal(inPos, word)
         d == Touch(Touch(Touch(dictionary, twoBack), w), oneBack)
     IN  /\ word' = w
         /\ dictionary' = d
         /\ trees' = loadStep(trees, d, twoBack, oneBack, w)
  /\ inPos' = ReadPos(inPos)
  /\ inEof' = ReadEof(inPos)
  /\ UNCHANGED << inputVars, pc, vocabVars, twoBack, oneBack, reverseDictionary,
                  rootVars, coordVars, frame, matchVars, visited, matches,
                  emitting, printed >>

\* ---------------------------------------------------------- reverseEntries
Least(S) == CHOOSE x \in S : \A y \in S : x <= y

\* The loop of lines 117-123 over the keys not yet visited, in key order;
\* map::insert leaves an id that is already a key as it is.
RECURSIVE reverseEntriesFrom(_, _, _)
reverseEntriesFrom(d, rd, keys) ==
  IF keys = {} THEN rd
  ELSE LET w == Least(keys)
           num == d[w]
       IN  reverseEntriesFrom(d,
                              IF num \in DOMAIN rd THEN rd ELSE rd @@ (num :> w),
                              keys \ {w})

reverseEntries(d, rd) == reverseEntriesFrom(d, rd, DOMAIN d)

\* load, line 304, and the start of the search phase (main, lines 315-316).
loadDone ==
  /\ pc = "load"
  /\ inEof
  /\ reverseDictionary' = reverseEntries(dictionary, reverseDictionary)
  /\ current' = 0
  /\ pc' = "search"
  /\ UNCHANGED << inputVars, vocabVars, dictionary, loadVars, trees, root, max,
                  coordVars, frame, matchVars, visited, matches, emitting, printed >>

\* ------------------------------------------------------------------ maximum
\* unsigned int arithmetic: the value modulo 2^w.
Unsigned(n) == n % UintModulus

RECURSIVE grandchildrenFrom(_, _)
grandchildrenFrom(r, i) ==
  IF i < Len(r)
    THEN Unsigned(Len(r[i + 1].second) + grandchildrenFrom(r, i + 1))
    ELSE 0

\* The total number of leaves of a root (the local `grandchildren`).
grandchildren(r) == grandchildrenFrom(r, 0)

\* maximum with the test of line 202 widened to `grandchildren <= 1`.
maximumAtLeastOne(r) ==
  IF grandchildren(r) <= 1 THEN 1
  ELSE Unsigned(grandchildren(r) * Unsigned(grandchildren(r) + 1)) \div 2

\* Line 208 multiplies in unsigned int: the product is taken modulo 2^w before
\* it is halved.
maximum(r) ==
  IF grandchildren(r) = 1 THEN 1
  ELSE Unsigned(grandchildren(r) * Unsigned(grandchildren(r) + 1)) \div 2

\* ------------------------------------------------------- iterateCoordinates
Coordinate(b, l) == [first |-> b, second |-> l]

\* The unsigned expression `n - 1`.
MinusOne(n) == IF n = 0 THEN SIZE_MAX ELSE n - 1

\* iterateCoordinates with lines 84-90 moving main where they move sweep.
iterateCoordinatesMainMoved(r, m, s) ==
  IF s.first = MinusOne(Len(r)) /\ s.second = MinusOne(Len(r[Len(r)].second))
    THEN LET m2 == IF m.second = MinusOne(Len(r[m.first + 1].second))
                     THEN Coordinate(m.first + 1, 0)
                     ELSE Coordinate(m.first, m.second + 1)
         IN  [main |-> m2, sweep |-> m2]
    ELSE [main  |-> IF s.second = MinusOne(Len(r[s.first + 1].second))
                      THEN Coordinate(m.first + 1, 0)
                      ELSE Coordinate(m.first, m.second + 1),
          sweep |-> s]

\* The coordinates after one call, as [main |-> ..., sweep |-> ...].
iterateCoordinates(r, m, s) ==
  IF s.first = MinusOne(Len(r)) /\ s.second = MinusOne(Len(r[Len(r)].second))
    THEN LET m2 == IF m.second = MinusOne(Len(r[m.first + 1].second))
                     THEN Coordinate(m.first + 1, 0)
                     ELSE Coordinate(m.first, m.second + 1)
         IN  [main |-> m2, sweep |-> m2]
    ELSE [main  |-> m,
          sweep |-> IF s.second = MinusOne(Len(r[s.first + 1].second))
                      THEN Coordinate(s.first + 1, 0)
                      ELSE Coordinate(s.first, s.second + 1)]

\* The vector subscripts iterateCoordinates evaluates are inside the vectors.
iterateInBounds(r, m, s) ==
  /\ Len(r) > 0
  /\ s.first < Len(r)
  /\ (s.first = MinusOne(Len(r)) /\ s.second = MinusOne(Len(r[Len(r)].second)))
       => m.first < Len(r)

\* ------------------------------------------------------------ selecting a root
\* selectRoot with line 329 moving the entry out of the forest where it copies.
selectRootMoving ==
  /\ pc = "search"
  /\ current < Len(trees)
  /\ mainCoordinates' = Coordinate(0, 0)
  /\ sweepCoordinates' = Coordinate(0, 0)
  /\ root' = trees[current + 1]
  /\ trees' = [trees EXCEPT ![current + 1] = EmptyTop]
  /\ max' = maximum(trees[current + 1])
  /\ ranBefore' = FALSE
  /\ reverseDictionary' = Touch(reverseDictionary, current)
  /\ pos' = 0
  /\ visited' = << >>
  /\ pc' = "pairs"
  /\ UNCHANGED << inputVars, vocabVars, dictionary, loadVars, current,
                  frame, matchVars, matches, emitting, printed >>

\* main, lines 316-334: the next root, its coordinates, its copy and its max;
\* the header line resolves the root through operator[] of the reverse map.
selectRoot ==
  /\ pc = "search"
  /\ current < Len(trees)
  /\ mainCoordinates' = Coordinate(0, 0)
  /\ sweepCoordinates' = Coordinate(0, 0)
  /\ root' = trees[current + 1]
  /\ max' = maximum(trees[current + 1])
  /\ ranBefore' = FALSE
  /\ reverseDictionary' = Touch(reverseDictionary, current)
  /\ pos' = 0
  /\ visited' = << >>
  /\ pc' = "pairs"
  /\ UNCHANGED << inputVars, vocabVars, dictionary, loadVars, trees, current,
                  frame, matchVars, matches, emitting, printed >>

\* ------------------------------------------------------------- getNextFrame
\* The coordinates getNextFrame reads the frame from (lines 215-218).
nextCoordinates ==
  IF ranBefore
    THEN iterateCoordinates(root, mainCoordinates, sweepCoordinates)
    ELSE [main |-> mainCoordinates, sweep |-> sweepCoordinates]

\* root[c.first] exists; root[c.first].second[c.second] exists.
branchInBounds(r, c) == c.first < Len(r)
leafInBounds(r, c) == branchInBounds(r, c) /\ c.second < Len(r[c.first + 1].second)

\* What a read outside a vector may yield: any word id, or a value that is none.
GarbageValues == 0..NumWords

\* The values root[c.first].second[c.second] may yield.
leafAt(r, c) ==
  IF leafInBounds(r, c) THEN { r[c.first + 1].second[c.second + 1] } ELSE GarbageValues

populateChildrenForE(r) == [i \in 1..Len(r) |-> r[i].first]

\* getNextFrame with line 222 storing the branch id where it stores the leaf.
getNextFrameFrameBranchAsLeaf(f, cur, r, m, s, c, g) ==
  [f EXCEPT ![1] = cur,
            ![2] = r[m.first + 1].first,
            ![3] = r[m.first + 1].first,
            ![4] = r[s.first + 1].first,
            ![7] = g]

\* The frame getNextFrame leaves (lines 220-224), given the two leaves read.
getNextFrameFrame(f, cur, r, m, s, c, g) ==
  [f EXCEPT ![1] = cur,
            ![2] = r[m.first + 1].first,
            ![3] = c,
            ![4] = r[s.first + 1].first,
            ![7] = g]

\* One iteration of the loop over pos up to the loop over the matches (lines
\* 335-352).  A leaf subscript outside its vector is undefined behaviour: this
\* action is the outcome in which the read yields some value.
getNextFrame ==
  /\ pc = "pairs"
  /\ pos < max
  /\ ranBefore => iterateInBounds(root, mainCoordinates, sweepCoordinates)
  /\ LET nc == nextCoordinates
     IN  /\ branchInBounds(root, nc.main)
         /\ branchInBounds(root, nc.sweep)
         /\ mainCoordinates' = nc.main
         /\ sweepCoordinates' = nc.sweep
         /\ visited' = Append(visited, nc)
         /\ \E c \in leafAt(root, nc.main), g \in leafAt(root, nc.sweep) :
              frame' = getNextFrameFrame(frame, current, root, nc.main, nc.sweep, c, g)
         /\ rootB' = trees[root[nc.main.first + 1].first + 1]
         /\ rootD' = trees[root[nc.sweep.first + 1].first + 1]
         /\ children' = populateChildrenForE(trees[root[nc.main.first + 1].first + 1])
  /\ ranBefore' = TRUE
  /\ iterE' = 0
  /\ gotNextE' = TRUE
  /\ matches' = << >>
  /\ pc' = "matches"
  /\ UNCHANGED << inputVars, vocabVars, dictionary, loadVars, trees,
                  reverseDictionary, rootVars, pos, emitting, printed >>

\* Every subscript of the call is inside its vector.
getNextFrameInBounds ==
  /\ ranBefore => iterateInBounds(root, mainCoordinates, sweepCoordinates)
  /\ leafInBounds(root, nextCoordinates.main)
  /\ leafInBounds(root, nextCoordinates.sweep)

\* The other outcome of a subscript outside its vector: the program dies, after
\* iterateCoordinates has moved the coordinates.
getNextFrameCrash ==
  /\ pc = "pairs"
  /\ pos < max
  /\ ~getNextFrameInBounds
  /\ IF ranBefore => iterateInBounds(root, mainCoordinates, sweepCoordinates)
       THEN /\ mainCoordinates' = nextCoordinates.main
            /\ sweepCoordinates' = nextCoordinates.sweep
            /\ visited' = Append(visited, nextCoordinates)
       ELSE UNCHANGED << mainCoordinates, sweepCoordinates, visited >>
  /\ pc' = "crashed"
  /\ UNCHANGED << inputVars, vocabVars, dictionary, loadVars, trees,
                  reverseDictionary, rootVars, ranBefore, pos, frame, matchVars,
                  matches, emitting, printed >>

\* ------------------------------------------------------------------ getNext
\* The index the loop of lines 167-170 stops at.
RECURSIVE getNextScan(_, _, _)
getNextScan(ch, r, i) ==
  IF i < Len(ch) /\ doesNotContain(r, ch[i + 1])
    THEN getNextScan(ch, r, i + 1)
    ELSE i

\* getNext without the test against the passed-in root: the next child is taken.
getNextUntested(f, ch, r, i, framePos) ==
  IF ~(i < Len(ch))
    THEN [gotNext |-> FALSE, frame |-> f, i |-> i + 1]
    ELSE [gotNext |-> TRUE,
          frame |-> [f EXCEPT ![framePos + 1] = ch[i + 1]],
          i |-> i + 1]

\* getNext without line 185: the cursor stays on the match.
getNextCursorKept(f, ch, r, i, framePos) ==
  LET j == getNextScan(ch, r, i)
  IN  IF ~(j < Len(ch))
        THEN [gotNext |-> FALSE, frame |-> f, i |-> j]
        ELSE [gotNext |-> TRUE,
              frame |-> [f EXCEPT ![framePos + 1] = ch[j + 1]],
              i |-> j]

\* getNext: [gotNext, frame, i] after the call.
getNext(f, ch, r, i, framePos) ==
  LET j == getNextScan(ch, r, i)
  IN  IF ~(j < Len(ch))
        THEN [gotNext |-> FALSE, frame |-> f, i |-> j + 1]
        ELSE IF j < Len(ch) /\ doesNotContain(r, ch[j + 1])
          THEN [gotNext |-> FALSE, frame |-> f, i |-> j + 1]
          ELSE [gotNext |-> TRUE,
                frame |-> [f EXCEPT ![framePos + 1] = ch[j + 1]],
                i |-> j + 1]

\* ---------------------------------------------------------------- outPutAll
DividerLine == 0 - 1

\* The word each `cout << reverseDictionary[frame[i]]` writes (line 158).
outPutAllLines(f, rd) == [i \in 1..Len(f) |-> Subscript(rd, f[i])]

\* The reverse map after the operator[] calls of the loop.
RECURSIVE outPutAllMap(_, _, _)
outPutAllMap(f, rd, i) ==
  IF i < Len(f) THEN outPutAllMap(f, Touch(rd, f[i + 1]), i + 1) ELSE rd

\* One iteration of `while (gotNextE)` (lines 354-366); when the matcher is
\* exhausted the loop ends and the loop over pos goes on (line 335, pos++).
nextMatch ==
  /\ pc = "matches"
  /\ gotNextE
  /\ LET g == getNext(frame, children, rootD, iterE, FRAME_POS_E)
     IN  /\ frame' = g.frame
         /\ iterE' = g.i
         /\ gotNextE' = g.gotNext
         /\ emitting' = g.gotNext
         /\ IF g.gotNext
              THEN /\ printed' = << DividerLine >> \o outPutAllLines(g.frame, reverseDictionary)
                   /\ reverseDictionary' = outPutAllMap(g.frame, reverseDictionary, 0)
                   /\ matches' = Append(matches, g.frame[FRAME_POS_E + 1])
                   /\ UNCHANGED << pc, pos >>
              ELSE /\ pc' = "pairs"
                   /\ pos' = pos + 1
                   /\ UNCHANGED << printed, reverseDictionary, matches >>
  /\ UNCHANGED << inputVars, vocabVars, dictionary, loadVars, trees, rootVars,
                  mainCoordinates, sweepCoordinates, ranBefore, children,
                  rootB, rootD, visited >>

\* The loop over pos is over: on to the next root (line 316, current++).
nextRoot ==
  /\ pc = "pairs"
  /\ ~(pos < max)
  /\ current' = current + 1
  /\ pc' = "search"
  /\ UNCHANGED << inputVars, vocabVars, dictionary, loadVars, trees,
                  reverseDictionary, root, max, coordVars, frame, matchVars,
                  visited, matches, emitting, printed >>

\* The loop over the roots is over (line 369).
finish ==
  /\ pc = "search"
  /\ ~(current < Len(trees))
  /\ pc' = "done"
  /\ UNCHANGED << inputVars, vocabVars, dictionary, loadVars, trees,
                  reverseDictionary, rootVars, coordVars, frame, matchVars,
                  visited, matches, emitting, printed >>

\* ------------------------------------------------------------ specification
EmptyMap == [x \in {} |-> 0]

Init ==
  /\ stream \in Corpora
  /\ trailing \in BOOLEAN
  /\ pc = "loadDictionary"
  /\ vocabPos = 0
  /\ vocabEof = FALSE
  /\ dictWord = EmptyString
  /\ dictionary = EmptyMap
  /\ inPos = 0
  /\ inEof = FALSE
  /\ twoBack = EmptyString
  /\ oneBack = EmptyString
  /\ word = EmptyString
  /\ trees = << >>
  /\ reverseDictionary = EmptyMap
  /\ current = 0
  /\ mainCoordinates = Coordinate(0, 0)
  /\ sweepCoordinates = Coordinate(0, 0)
  /\ root = EmptyTop
  /\ max = 0
  /\ ranBefore = FALSE
  /\ pos = 0
  /\ frame = [i \in 1..FRAME_SIZE |-> SENTINEL]
  /\ children = << >>
  /\ iterE = 0
  /\ gotNextE = TRUE
  /\ rootB = EmptyTop
  /\ rootD = EmptyTop
  /\ visited = << >>
  /\ matches = << >>
  /\ emitting = FALSE
  /\ printed = << >>

Next ==
  \/ loadDictionary
  \/ loadFirstBranch
  \/ load
  \/ loadDone
  \/ selectRoot
  \/ getNextFrame
  \/ getNextFrameCrash
  \/ nextMatch
  \/ nextRoot
  \/ finish

Spec == Init /\ [][Next]_vars

\* ------------------------------------- the pair count of a root of many leaves
\* Most leaves of a root whose forest still has ids of w bits.
MaxLeaves == UintModulus - 3

\* The corpus of two tokens followed by n words, all distinct.
DistinctCorpus(n) == [i \in 1..(n + 2) |-> i]

\* A corpus of distinct tokens, or one followed by one of its tokens again.
isMaximumCorpus(c) ==
  /\ Len(c) >= 2
  /\ \/ c = DistinctCorpus(Len(c) - 2)
     \/ /\ Len(c) >= 3
        /\ SubSeq(c, 1, Len(c) - 1) = DistinctCorpus(Len(c) - 3)
        /\ c[Len(c)] < Len(c)

MaximumCorpora ==
  { DistinctCorpus(n) : n \in 0..MaxLeaves }
    \cup UNION { { Append(DistinctCorpus(n), k) : k \in 1..(n + 2) } : n \in 0..(MaxLeaves - 1) }

\* The forest after the iterations of load's loop for tokens i.. of corpus c.
RECURSIVE loadFrom(_, _, _, _)
loadFrom(t, d, c, i) ==
  IF i > Len(c) THEN t
  ELSE loadFrom(loadStep(t, d, c[1], c[2], c[i]), d, c, i + 1)

\* The ids loadDictionary gives the tokens of a corpus of isMaximumCorpus
\* (lines 99-102): the token k is the k-th new one.
loadedDictionary(c) == [w \in Distinct(c) |-> w - 1]

\* The forest load builds from the corpus c (lines 247-298).
loadedForest(c) ==
  LET d == loadedDictionary(c)
      sized == [i \in 1..Cardinality(Distinct(c)) |-> EmptyTop]
  IN  loadFrom([sized EXCEPT ![1] = Append(@, Branch(d[c[2]]))], d, c, 3)

\* The state load returns in for a corpus of MaximumCorpora.
InitMaximum ==
  \E c \in MaximumCorpora :
    /\ stream = c
    /\ trailing = FALSE
    /\ pc = "search"
    /\ vocabPos = Len(c)
    /\ vocabEof = TRUE
    /\ dictWord = c[Len(c)]
    /\ dictionary = loadedDictionary(c)
    /\ inPos = Len(c)
    /\ inEof = TRUE
    /\ twoBack = c[1]
    /\ oneBack = c[2]
    /\ word = IF Len(c) = 2 THEN EmptyString ELSE c[Len(c)]
    /\ trees = loadedForest(c)
    /\ reverseDictionary = [id \in 0..(Cardinality(Distinct(c)) - 1) |-> id + 1]
    /\ current = 0
    /\ mainCoordinates = Coordinate(0, 0)
    /\ sweepCoordinates = Coordinate(0, 0)
    /\ root = EmptyTop
    /\ max = 0
    /\ ranBefore = FALSE
    /\ pos = 0
    /\ frame = [i \in 1..FRAME_SIZE |-> SENTINEL]
    /\ children = << >>
    /\ iterE = 0
    /\ gotNextE = TRUE
    /\ rootB = EmptyTop
    /\ rootD = EmptyTop
    /\ visited = << >>
    /\ matches = << >>
    /\ emitting = FALSE
    /\ printed = << >>

\* The step of main that calls maximum, from the state load returns in.
NextMaximum == selectRoot

SpecMaximum == InitMaximum /\ [][NextMaximum]_vars

\* The state InitMaximum gives for a corpus is the state load returns in.
InitMaximumIsLoaded ==
  (pc = "search" /\ current = 0 /\ ~trailing /\ isMaximumCorpus(stream)) =>
    /\ trees = loadedForest(stream)
    /\ dictionary = loadedDictionary(stream)
    /\ reverseDictionary = [id \in 0..(Cardinality(Distinct(stream)) - 1) |-> id + 1]
    /\ << vocabPos, vocabEof, dictWord >> = << Len(stream), TRUE, stream[Len(stream)] >>
    /\ << inPos, inEof, twoBack, oneBack >> = << Len(stream), TRUE, stream[1], stream[2] >>
    /\ word = IF Len(stream) = 2 THEN EmptyString ELSE stream[Len(stream)]
    /\ << mainCoordinates, sweepCoordinates >> = << Coordinate(0, 0), Coordinate(0, 0) >>
    /\ << root, max, ranBefore, pos >> = << EmptyTop, 0, FALSE, 0 >>
    /\ frame = [i \in 1..FRAME_SIZE |-> SENTINEL]
    /\ << children, iterE, gotNextE, rootB, rootD >> = << << >>, 0, TRUE, EmptyTop, EmptyTop >>
    /\ << visited, matches, emitting, printed >> = << << >>, << >>, FALSE, << >> >>

\* ------------------------------------------------------- lemmas of the model
\* The subscripts of `root` itself (not of a leaf vector) stay inside it, so
\* the only read outside a vector is that of a leaf (lines 222 and 224).
RootSubscriptsInBounds ==
  (pc = "pairs" /\ pos < max) =>
    /\ ranBefore => iterateInBounds(root, mainCoordinates, sweepCoordinates)
    /\ branchInBounds(root, nextCoordinates.main)
    /\ branchInBounds(root, nextCoordinates.sweep)

\* Every branch id and leaf of the forest is a subscript of the forest.
ForestIdsInRange ==
  \A r \in 1..Len(trees) : \A j \in 1..Len(trees[r]) :
    /\ trees[r][j].first < Len(trees)
    /\ \A k \in 1..Len(trees[r][j].second) : trees[r][j].second[k] < Len(trees)

\* ------------------------------------------------- vocabulary of the claims
\* load has returned.
Loaded == pc \in {"search", "pairs", "matches", "done", "crashed"}

\* The state load returns in: the search phase has not touched anything yet.
JustLoaded == pc = "search" /\ current = 0

\* vocabulary_size: the size of the dictionary when the forest is sized.
VocabularySize == Len(trees)
WordIds == 0..(VocabularySize - 1)

\* The entry of the forest rooted at word id r.
Entry(r) == trees[r + 1]
BranchIdsOf(t) == { t[j].first : j \in 1..Len(t) }
LeavesUnder(t, b) ==
  UNION { { t[j].second[k] : k \in 1..Len(t[j].second) } :
          j \in { i \in 1..Len(t) : t[i].first = b } }

\* The 3-token windows of the corpus, as word ids.
Windows ==
  { << Subscript(dictionary, stream[i]),
       Subscript(dictionary, stream[i + 1]),
       Subscript(dictionary, stream[i + 2]) >> : i \in 1..(Len(stream) - 2) }

\* The (root, branch, leaf) triples the forest holds.
Edges ==
  { e \in WordIds \X WordIds \X WordIds :
      e[1] + 1 <= Len(trees) /\ e[3] \in LeavesUnder(Entry(e[1]), e[2]) }

\* Position of the first occurrence of token w in the corpus.
FirstOccurrence(w) == Least({ i \in 1..Len(stream) : stream[i] = w })

\* C1: after load on a corpus of at least 3 tokens the forest holds exactly the
\* observed 3-token windows: root r has a branch b with leaf l if and only if
\* (r, b, l) are three consecutive tokens of the corpus; during the build the
\* window (root, branch, leaf) is the last three tokens read.
C1_ForestHoldsExactlyTheWindows ==
  /\ (Loaded /\ Len(stream) >= 3) => Edges = Windows
  /\ (pc = "load" /\ inPos >= 3) =>
       << twoBack, oneBack, word >>
         = << stream[inPos - 2], stream[inPos - 1], stream[inPos] >>

\* C7: after the vocabulary pass the vocabulary size equals the number of
\* distinct tokens of the corpus, the empty corpus and corpora with trailing
\* whitespace included.
C7_VocabularySizeIsDistinctTokens ==
  (pc = "loadDictionary" /\ vocabEof)
    => Cardinality(DOMAIN dictionary) = Cardinality(Distinct(stream))

\* The half of C7 that the code keeps: an iteration of the vocabulary pass whose
\* token is interned already leaves the vocabulary as it is.
ReinterningKeepsVocabulary ==
  [][(pc = "loadDictionary" /\ ~vocabEof
        /\ ReadVal(vocabPos, dictWord) \in DOMAIN dictionary)
       => dictionary' = dictionary]_vars

\* C8: when load returns, the token->id map and the id->token map are mutually
\* inverse bijections between the distinct tokens of the corpus and the ids
\* 0..vocabulary_size-1, and ids increase with the first occurrence.
C8_VocabularyIsBijection ==
  JustLoaded =>
    /\ DOMAIN dictionary = Distinct(stream)
    /\ DOMAIN reverseDictionary = WordIds
    /\ \A w \in DOMAIN dictionary :
         /\ dictionary[w] \in DOMAIN reverseDictionary
         /\ reverseDictionary[dictionary[w]] = w
    /\ \A n \in DOMAIN reverseDictionary :
         /\ reverseDictionary[n] \in DOMAIN dictionary
         /\ dictionary[reverseDictionary[n]] = n
    /\ \A v, w \in DOMAIN dictionary \cap Distinct(stream) :
         FirstOccurrence(v) < FirstOccurrence(w) => dictionary[v] < dictionary[w]

\* A sequence without a repeated element.
NoRepeats(q) == \A i, j \in 1..Len(q) : q[i] = q[j] => i = j

\* C9: at every point of the forest build and in the final forest no root has
\* two branch entries with the same branch id and no leaf set holds a word id
\* twice.
C9_BranchesAndLeavesUnique ==
  \A r \in 1..Len(trees) :
    /\ NoRepeats([j \in 1..Len(trees[r]) |-> trees[r][j].first])
    /\ \A j \in 1..Len(trees[r]) : NoRepeats(trees[r][j].second)

\* C9 witness: the build has met a word a second time, as a branch and as a
\* leaf, and went on.
C9_Witness ==
  /\ pc = "load"
  /\ \E i, j \in 3..inPos : i < j /\ stream[i] = stream[j]
  /\ \E r \in 1..Len(trees) : \E j \in 1..Len(trees[r]) : Len(trees[r][j].second) >= 2

\* c is at or after d in (branch_index, leaf_index) order.
LexGeq(c, d) == c.first > d.first \/ (c.first = d.first /\ c.second >= d.second)

\* C10: in every state of the enumeration of a root, from its initialisation
\* through every call of iterateCoordinates, sweep is lexicographically at or
\* after main.
C10_SweepNotBeforeMain == LexGeq(sweepCoordinates, mainCoordinates)

\* C10 witness: iterateCoordinates has been called and has moved sweep.
C10_Witness ==
  /\ pc = "matches"
  /\ Len(visited) >= 2
  /\ sweepCoordinates # mainCoordinates

\* The slots of the frame, numbered as in the source.
Slot(n) == frame[n + 1]

\* C2: every frame handed to the emitter has in slot 4 a branch id of the
\* forest entry rooted at slot 1 that is also a branch id of the entry rooted
\* at slot 3.
C2_SharedContinuation ==
  emitting =>
    /\ Slot(1) \in WordIds /\ Slot(3) \in WordIds
    /\ Slot(4) \in BranchIdsOf(Entry(Slot(1)))
    /\ Slot(4) \in BranchIdsOf(Entry(Slot(3)))

\* C2 witness: a frame is handed to the emitter whose continuation is not the
\* first child of slot 1.
C2_Witness ==
  /\ emitting
  /\ iterE >= 2
  /\ Slot(4) \in BranchIdsOf(Entry(Slot(1))) \cap BranchIdsOf(Entry(Slot(3)))

\* C3: every frame handed to the emitter has the current root in slot 0,
\* branch ids of that root in slots 1 and 3, a leaf of branch slot 1 in slot 2
\* and a leaf of branch slot 3 in slot 6.
C3_FrameComesFromRoot ==
  emitting =>
    /\ Slot(0) = current
    /\ Slot(1) \in BranchIdsOf(Entry(current))
    /\ Slot(3) \in BranchIdsOf(Entry(current))
    /\ Slot(2) \in LeavesUnder(Entry(current), Slot(1))
    /\ Slot(6) \in LeavesUnder(Entry(current), Slot(3))

\* C3 witness: a frame is handed to the emitter whose two leaves differ.
C3_Witness ==
  /\ emitting
  /\ Slot(2) # Slot(6)
  /\ Slot(2) \in LeavesUnder(Entry(current), Slot(1))
  /\ Slot(6) \in LeavesUnder(Entry(current), Slot(3))

\* The branch ids of the entry rooted at b that are branch ids of the entry
\* rooted at d too, among the first n of them, in branch-list order.
SharedAmongFirst(b, d, n) ==
  LET ids == [j \in 1..Len(Entry(b)) |-> Entry(b)[j].first]
      InD(x) == x \in BranchIdsOf(Entry(d))
      upTo == IF n < Len(ids) THEN n ELSE Len(ids)
  IN  SelectSeq(SubSeq(ids, 1, upTo), InD)

\* C6: for every coordinate pair the matches produced are the branch ids of
\* Forest[B] that are branch ids of Forest[D] too, each once, in Forest[B]
\* order, B and D being the branch ids at main and sweep; the cursor starts at
\* 0 for the pair, and once the matcher reports exhausted every one of them
\* was produced and no frame follows for the pair.
C6_MatchesAreTheSharedBranches ==
  /\ pc = "matches" =>
       /\ ~emitting => (iterE = 0 /\ matches = << >>)
       /\ matches = SharedAmongFirst(Slot(1), Slot(3), iterE)
  /\ (pc = "pairs" /\ pos > 0) =>
       /\ ~gotNextE /\ ~emitting
       /\ matches = SharedAmongFirst(Slot(1), Slot(3), Len(Entry(Slot(1))))

\* C6 witness: the matcher is exhausted for a pair after two or more matches.
C6_Witness ==
  /\ pc = "pairs"
  /\ pos > 0
  /\ ~gotNextE
  /\ Len(matches) >= 2

\* C6 witness of a pair without a match although B has branches.
C6_WitnessNoMatch ==
  /\ pc = "pairs"
  /\ pos > 0
  /\ matches = << >>
  /\ Len(Entry(Slot(1))) > 0

\* The total leaf count L of a root.
RECURSIVE LeafCount(_)
LeafCount(t) == IF t = << >> THEN 0 ELSE Len(Head(t).second) + LeafCount(Tail(t))

Triangular(n) == (n * (n + 1)) \div 2

\* The driver is through with the root it copied into `root`: it went on to
\* the next root, or the program ended in it.
RootLeft == (pc \in {"search", "done"} /\ current > 0) \/ pc = "crashed"

\* C4: the number of (main, sweep) coordinate pairs the driver visits for a
\* root equals L*(L+1)/2, L being the total leaf count of the root.
C4_PairsVisitedIsTriangular ==
  RootLeft => (Len(visited) = Triangular(LeafCount(root)) /\ NoRepeats(visited))

\* The position of coordinate c among the (branch, leaf) pairs of t flattened
\* in branch-list/leaf-set order.
FlatPosition(t, c) ==
  LeafCount(SubSeq(t, 1, IF c.first < Len(t) THEN c.first ELSE Len(t))) + c.second

\* The pairs p <= q of 0..n-1 in row-major order, from << p, q >> on.
RECURSIVE UpperTriangleFrom(_, _, _)
UpperTriangleFrom(n, p, q) ==
  IF p >= n THEN << >>
  ELSE << << p, q >> >> \o
       (IF q = n - 1 THEN UpperTriangleFrom(n, p + 1, p + 1)
                     ELSE UpperTriangleFrom(n, p, q + 1))

UpperTriangle(n) == UpperTriangleFrom(n, 0, 0)

\* C5: the (main, sweep) pairs visited for a root are, as flattened positions,
\* the upper-triangular matrix with its diagonal in row-major order,
\* (0,0),(0,1),...,(0,L-1),(1,1),...,(L-1,L-1), each pair once.
C5_PairsAreUpperTriangleInRowMajorOrder ==
  LET want == UpperTriangle(LeafCount(root))
  IN  /\ Len(visited) <= Len(want)
      /\ \A k \in 1..Len(visited) :
           k <= Len(want) =>
             << FlatPosition(root, visited[k].main),
                FlatPosition(root, visited[k].sweep) >> = want[k]
      /\ RootLeft => Len(visited) = Len(want)

\* C11: a root whose total leaf count is 0 (an empty branch list in
\* particular) is skipped: no coordinate pair is visited for it, coordinate
\* (0,0) of it is never read, no frame is emitted for it, the program does not
\* die in it, and the driver goes on to the next root.
C11_LeaflessRootIsSkipped ==
  LeafCount(root) = 0 =>
    /\ pc \notin {"matches", "crashed"}
    /\ visited = << >>
    /\ ~emitting
    /\ pc = "pairs" =>
         /\ ENABLED nextRoot
         /\ ~ENABLED getNextFrame
         /\ ~ENABLED getNextFrameCrash

\* C11 witness: the driver has skipped a root with an empty branch list and
\* stands before the root after it.
C11_Witness ==
  /\ pc = "search"
  /\ current >= 2
  /\ current < Len(trees)
  /\ root = << >>
  /\ visited = << >>

\* C12: on a corpus of fewer than 3 tokens load leaves every root's branch
\* list empty, the search phase emits no frame, and the program does not die.
C12_ShortCorpusBuildsNoEdges ==
  Len(stream) < 3 =>
    /\ Loaded => \A r \in 1..Len(trees) : trees[r] = << >>
    /\ ~emitting
    /\ pc # "crashed"

\* The slots a frame is said to be rendered from, in order.
DefinedSlots == << 0, 1, 2, 3, 4, 6 >>

\* C13: an emitted frame is rendered as a divider line followed by exactly six
\* word lines, the words of slots 0, 1, 2, 3, 4, 6 in that order; the reserved
\* slots 5, 7, 8 are neither looked up in the id->token map nor written.
C13_FrameRenderedAsSixWords ==
  emitting =>
    /\ printed = << DividerLine >> \o
                 [n \in 1..Len(DefinedSlots) |->
                    Subscript(reverseDictionary, Slot(DefinedSlots[n]))]
    /\ SENTINEL \notin DOMAIN reverseDictionary

\* Every root, branch and leaf of forest t is in forest u, at its place.
ForestKept(t, u) ==
  /\ Len(t) <= Len(u)
  /\ \A r \in 1..Len(t) :
       /\ Len(t[r]) <= Len(u[r])
       /\ \A j \in 1..Len(t[r]) :
            /\ u[r][j].first = t[r][j].first
            /\ Len(t[r][j].second) <= Len(u[r][j].second)
            /\ \A k \in 1..Len(t[r][j].second) : u[r][j].second[k] = t[r][j].second[k]

\* C14: once load has returned no step changes the forest, and no step of the
\* whole run removes a branch or a leaf.
C14_ForestReadOnlyAfterLoad ==
  [][(Loaded => trees' = trees) /\ ForestKept(trees, trees')]_vars

\* C14 witness: the search phase has gone through coordinate pairs and has
\* emitted a frame.
C14_Witness ==
  /\ emitting
  /\ Len(visited) >= 2
  /\ \E r \in 1..Len(trees) : Len(trees[r]) >= 2

\* The forest-building pass is running: the vocabulary pass is over and load
\* has not returned.
Building == (pc = "loadDictionary" /\ vocabEof) \/ pc = "load"

\* C15: the word ids are fixed by the vocabulary pass: no step of the
\* forest-building pass adds an entry to the vocabulary or changes one, the
\* forest has one slot per vocabulary entry, and every root index, branch id
\* and leaf id stored or used during the build is below vocabulary_size.
C15_VocabularyFixedBeforeBuild ==
  [][Building =>
       /\ dictionary' = dictionary
       /\ Len(trees') = Cardinality(DOMAIN dictionary')
       /\ Subscript(dictionary', twoBack') < Len(trees')
       /\ \A r \in 1..Len(trees') : \A j \in 1..Len(trees'[r]) :
            /\ trees'[r][j].first < Len(trees')
            /\ \A k \in 1..Len(trees'[r][j].second) :
                 trees'[r][j].second[k] < Len(trees')]_vars

\* C16: the driver terminates, and when it has it went through every root id
\* 0..vocabulary_size-1, one after the other: a run ends only in the state
\* after the last root, and a root in work is a root of the forest.
C16_DriverEndsAfterTheLastRoot ==
  /\ pc = "done" \/ ENABLED Next
  /\ pc = "done" => current = Len(trees)
  /\ pc \in {"pairs", "matches"} => current < Len(trees)

\* Coordinate c names a leaf of the root in work.
NamesALeaf(c) == c.first < Len(root) /\ c.second < Len(root[c.first + 1].second)

\* C17: for a root with L > 0 every coordinate getNextFrame reads the frame
\* from is in bounds: the branch index is below the branch count and the leaf
\* index is below the size of that branch's leaf set, for main and for sweep.
C17_CoordinatesInBounds ==
  LeafCount(root) > 0 =>
    \A k \in 1..Len(visited) :
      NamesALeaf(visited[k].main) /\ NamesALeaf(visited[k].sweep)

\* C18: when load has returned every branch entry of the forest has a
\* non-empty leaf set.
C18_EveryBranchHasALeaf ==
  Loaded =>
    \A r \in 1..Len(trees) : \A j \in 1..Len(trees[r]) :
      Len(trees[r][j].second) > 0

\* C19: no step of the search phase changes the id->token map; its key set
\* stays 0..vocabulary_size-1 whatever number of frames is emitted.
C19_ReverseDictionaryUnchangedInSearch ==
  [][Loaded =>
       /\ reverseDictionary' = reverseDictionary
       /\ DOMAIN reverseDictionary' = WordIds]_vars

\* C20: maximum returns the triangular number L*(L+1)/2 for every total leaf
\* count L its unsigned type holds: the product L*(L+1), taken modulo 2^w,
\* never makes the driver's pair count differ from the mathematical value.
C20_MaximumIsTriangular ==
  pc = "pairs" => max = Triangular(LeafCount(root))

====
